---- MODULE Spec2Model ----
(***************************************************************************)
(* Model of the b2 command-line client: the Upload and Download commands   *)
(* of main, the authenticating request executor (Config::send_request_res, *)
(* src/config.rs), the single-shot upload (upload_file_non_parts) and the  *)
(* chunked large-file upload (upload_file_parts, src/main.rs).             *)
(*                                                                         *)
(* One behaviour is one run of `b2 upload <file> <bucket>` on a path that  *)
(* is not a directory, or one run of `b2 download <bucket> <file>`.        *)
(* Every network exchange is one step: the server's                        *)
(* answer (and, when a reauthorisation follows, the answer of the          *)
(* authorisation endpoint) is an input of that step.                       *)
(***************************************************************************)
EXTENDS Integers, Sequences, FiniteSets, TLC

VARIABLES
    command,        \* the Command of the run: "upload" or "download"
    cfg,            \* the Config (session) object
    store,          \* the configuration store: the Config as last loaded or saved
    path_kind,      \* what the path names: "file", "special" (exists, not regular), "missing"
    parts,          \* Command::Upload.parts
    len,            \* the file length in bytes (fs::metadata(file)?.len())
    pc,             \* position of main / upload_file / upload_file_(non_)parts
    exit_code,      \* Running while the process runs, then its exit status
    reported,       \* "<file> is not a file." was printed
    bucket_id,      \* upload_file: `bucket_id`
    url,            \* main, Command::Download: `url`
    calls,          \* API calls issued, in order (one entry per call, not per attempt)
    ok_calls,       \* how many of them returned to the caller with success
    last_auth,      \* json of the last successful exchange with the authorisation endpoint
    result,         \* Result of the executor call in progress / of the function
    loops,          \* send_request_res: `loops`
    resps,          \* responses received by the executor call in progress
    reauths,        \* successful cfg.reauth() calls of the executor call in progress
    invocations,    \* invocations of `req` by the executor call in progress
    last_req,       \* the request most recently sent
    file_id,        \* upload_file_parts: `file_id`
    upload_url,     \* upload_file_parts: `upload_url`
    auth,           \* upload_file_parts: `auth`
    plan,           \* how chunk_size was derived: R, first quotient, branch taken
    chunk_size,     \* upload_file_parts: `chunk_size`
    chunks,         \* upload_file_parts: `chunks` (second binding)
    n,              \* loop variable of `for n in 0..=chunks`
    num_bytes,      \* result of file.read_at for the current chunk
    buf,            \* contents of `buf`
    shas,           \* upload_file_parts: `shas`
    total,          \* upload_file_parts: `total`
    submitted,      \* part requests, one entry per chunk (its first attempt)
    server_parts    \* part requests the server answered with status 200

vars == <<command, url, cfg, store, path_kind, parts, len, pc, exit_code, reported, bucket_id, calls,
          ok_calls, last_auth, result, loops, resps, reauths, invocations, last_req,
          file_id, upload_url, auth, plan, chunk_size, chunks, n, num_bytes,
          buf, shas, total, submitted, server_parts>>

----------------------------------------------------------------------------
(* Bounds of the model *)

MaxLenUnits == 3        \* file lengths up to MaxLenUnits * 5,000,000 (+ 2,000,000)
MaxChunks   == 4        \* stored part sizes are paired with lengths of at most this many chunks
MaxSessions == 2        \* distinct authorisation responses the server may give

(* Program constants *)

InitialLoops == 5
MinPartSize  == 5000000
SplitSlack   == 100
LargeFileThreshold == 1073741824

Max(a, b) == IF a >= b THEN a ELSE b
Min(a, b) == IF a <= b THEN a ELSE b
Last(s)   == s[Len(s)]

----------------------------------------------------------------------------
(* Inputs *)

Lens == {k * MinPartSize + d : k \in 0..MaxLenUnits, d \in {0, 1, 2000000}}

\* recommended_part_size as found in a stored configuration (Default is 0)
StoredPartSizes == {0, 1, 1000000, 4000000, 5000000, 6000000, 10000000, 100000000,
                    500000000}

\* recommendedPartSize as the authorisation endpoint reports it
ServerPartSizes == {5000000, 100000000}

\* file lengths around the large-file threshold of upload_file
BigLens == {LargeFileThreshold - 1, LargeFileThreshold, LargeFileThreshold + 1}

Inputs == {io \in (Lens \cup BigLens) \X StoredPartSizes :
              io[2] = 0 \/ io[1] \div io[2] <= MaxChunks}

AuthResponse(i, r) ==
    [account_id |-> "acct",
     api_url |-> <<"https://api", i>>,
     download_url |-> <<"https://f", i>>,
     authorization_token |-> <<"token", i>>,
     recommended_part_size |-> r]

AuthResponses == {AuthResponse(i, r) : i \in 1..MaxSessions, r \in ServerPartSizes}

ExpiredError == [status |-> 401, code |-> "expired_auth_token", message |-> "expired"]
OtherErrors  == {[status |-> 401, code |-> "bad_auth_token", message |-> "invalid"],
                 [status |-> 400, code |-> "bad_request", message |-> "bad"]}
ApiErrors    == {ExpiredError} \cup OtherErrors

\* what `send()?` of an API request can give: a transport error or a response
SendOutcomes ==
    {[ok |-> FALSE, status |-> 0, code |-> "", message |-> ""]}
      \cup {[ok |-> TRUE, status |-> 200, code |-> "", message |-> ""]}
      \cup {[ok |-> TRUE, status |-> e.status, code |-> e.code, message |-> e.message] :
                e \in ApiErrors}

\* what the exchange with the authorisation endpoint can give
NoAuthResponse == AuthResponse(0, 0)
AuthOutcomes ==
    {[ok |-> FALSE, status |-> 0, code |-> "", json |-> NoAuthResponse]}
      \cup {[ok |-> TRUE, status |-> 401, code |-> "bad_auth_token", json |-> NoAuthResponse]}
      \cup {[ok |-> TRUE, status |-> 200, code |-> "", json |-> a] : a \in AuthResponses}

\* the same, for a file of L bytes: the part sizes reported keep the number of
\* chunks within the bound
AuthOutcomesFor(L) ==
    {a \in AuthOutcomes :
        (a.ok /\ a.status = 200) => L \div a.json.recommended_part_size <= MaxChunks}

AuthOk(a) == a.ok /\ a.status = 200

\* written, like every URL, as base, API path, name; a base is a host and the
\* session it was given for
AUTHORISE_URL ==
    <<<<"https://api.backblazeb2.com", 0>>, "/b2api/v3/", "b2_authorize_account">>

----------------------------------------------------------------------------
(* Stored configurations (Config::load) *)

Buckets == {<<"bucket", "bucketId">>}

\* a bucket map saved by an earlier run, without the bucket of this run
StaleBuckets == {<<"other", "staleId">>}

\* Default::default(): no file, or a file without these fields
DefaultConfig ==
    [key_id |-> "", key |-> "", api_url |-> <<>>, download_url |-> <<>>,
     auth_token |-> <<>>, account_id |-> "", buckets |-> {},
     recommended_part_size |-> 0]

\* saved by an earlier run after an authorisation
SavedConfig(r, b) ==
    [key_id |-> "keyid", key |-> "key",
     api_url |-> <<"https://api", 0>>,
     download_url |-> <<"https://f", 0>>,
     auth_token |-> <<"token", 0>>,
     account_id |-> "acct",
     buckets |-> b,
     recommended_part_size |-> r]

\* written by hand: the application key and its id, nothing else
KeysOnlyConfig == [DefaultConfig EXCEPT !.key_id = "keyid", !.key = "key"]

\* a saved configuration from which the application key was removed
KeyRemovedConfig == [SavedConfig(0, {}) EXCEPT !.key = ""]

\* the bucket is in the stored map unless the configuration is a first one or
\* (for an empty file) one that has seen other buckets only
StoredConfigs(L) ==
    {SavedConfig(io[2], Buckets) : io \in {i \in Inputs : i[1] = L}}
      \cup {SavedConfig(r, {}) : r \in {q \in ServerPartSizes : L \div q <= MaxChunks}}
      \cup (IF L = 0 THEN {SavedConfig(r, StaleBuckets) : r \in ServerPartSizes} ELSE {})
      \cup {DefaultConfig, KeysOnlyConfig, KeyRemovedConfig}

----------------------------------------------------------------------------
(* Config *)

ApiUrl(c, api_name) == <<c.api_url, "/b2api/v3/", api_name>>

\* Config::confirm_auth: must credentials be asked for?
NeedsCredentials(c) == c.key = "" \/ c.key_id = ""

\* Config::authorise, after a 200 response
Authorise(c, key_id, key, json) ==
    [c EXCEPT !.key_id = key_id,
              !.key = key,
              !.api_url = json.api_url,
              !.download_url = json.download_url,
              !.auth_token = json.authorization_token,
              !.account_id = json.account_id,
              !.recommended_part_size = json.recommended_part_size]

\* Config::get_bucket_id
HasBucket(c, name) == \E b \in c.buckets : b[1] = name
BucketId(c, name)  == (CHOOSE b \in c.buckets : b[1] = name)[2]

\* InsertBuckets replacing the map by the listing
InsertBucketsOnly(m, listed) == listed

\* Config::get_buckets: buckets.insert for every bucket listed
InsertBuckets(m, listed) ==
    {b \in m : ~\E l \in listed : l[1] = b[1]} \cup listed

Reauth(c, json) ==
    [c EXCEPT !.api_url = json.api_url,
              !.download_url = json.download_url,
              !.auth_token = json.authorization_token,
              !.account_id = json.account_id,
              !.recommended_part_size = json.recommended_part_size]

\* Result values
Pending == [kind |-> "Pending", error |-> "", code |-> "", message |-> "", url |-> <<>>, index |-> 0]
Ok(i)   == [kind |-> "Ok", error |-> "", code |-> "", message |-> "", url |-> <<>>, index |-> i]
Err(e, code, message, u) ==
    [kind |-> "Err", error |-> e, code |-> code, message |-> message, url |-> u, index |-> 0]

\* Classify with the retry budget one short
ClassifyOneShort(l, res) ==
    IF l <= 1 THEN "exhausted"
    ELSE IF res.status = 200 THEN "return"
    ELSE IF res.code = "expired_auth_token" THEN "reauth"
    ELSE "api_error"

\* Classify with the status examined before the retry budget
ClassifyStatusFirst(l, res) ==
    IF res.status = 200 THEN "return"
    ELSE IF l = 0 THEN "exhausted"
    ELSE IF res.code = "expired_auth_token" THEN "reauth"
    ELSE "api_error"

\* Classify without the retry budget
ClassifyUnbounded(l, res) ==
    IF res.status = 200 THEN "return"
    ELSE IF res.code = "expired_auth_token" THEN "reauth"
    ELSE "api_error"

\* Classify giving up one response later
ClassifyOneMore(l, res) ==
    IF l + 1 = 0 THEN "exhausted"
    ELSE IF res.status = 200 THEN "return"
    ELSE IF res.code = "expired_auth_token" THEN "reauth"
    ELSE "api_error"

\* Classify asking for a reauthorisation on every 401
ClassifyAny401(l, res) ==
    IF l = 0 THEN "exhausted"
    ELSE IF res.status = 200 THEN "return"
    ELSE IF res.status = 401 THEN "reauth"
    ELSE "api_error"

\* send_request_res, the loop body after `req(self)?` returned the response res
Classify(l, res) ==
    IF l = 0 THEN "exhausted"
    ELSE IF res.status = 200 THEN "return"
    ELSE IF res.code = "expired_auth_token" THEN "reauth"
    ELSE "api_error"

----------------------------------------------------------------------------
(* File contents and hashing.  A byte string is a sequence of segments, each
   a run of the file's bytes or of zero bytes. *)

FileBytes(off, k) == IF k = 0 THEN <<>> ELSE <<[src |-> "file", off |-> off, len |-> k]>>
ZeroBytes(k)      == IF k = 0 THEN <<>> ELSE <<[src |-> "zero", off |-> 0, len |-> k]>>

RECURSIVE ByteLen(_)
ByteLen(s) == IF s = <<>> THEN 0 ELSE Head(s).len + ByteLen(Tail(s))

\* the bytes of s from position k on
RECURSIVE DropBytes(_, _)
DropBytes(s, k) ==
    IF k = 0 \/ s = <<>> THEN s
    ELSE IF Head(s).len <= k THEN DropBytes(Tail(s), k - Head(s).len)
    ELSE <<[Head(s) EXCEPT !.off = IF Head(s).src = "zero" THEN 0 ELSE @ + k,
                           !.len = @ - k]>> \o Tail(s)

\* file.read_at(&mut buf, off) returning k: the first k bytes of buf are overwritten
ReadAt(b, off, k) == FileBytes(off, k) \o DropBytes(b, k)

\* SHA-1 is modelled as collision free
Sha1(bytes) == <<"sha1", bytes>>
Hex(digest) == <<"hex", digest>>

\* the bytes handed to the hasher for a chunk
Hashed(b, k) == b

\* the body of a part request
PartBody(b, k) == b

\* PartNumber counting the attempts of the executor as well
PartNumberPerAttempt(i) == i + 1 + invocations

PartNumber(i) == i + 1

\* PushSha inserting at the front
PushShaFront(s, h) == <<h>> \o s

PushSha(s, h) == Append(s, h)

----------------------------------------------------------------------------
(* Chunk plan *)

\* NeedsSplit taking the branch for every single-chunk plan
NeedsSplitOneChunk(L, C, q) == q <= 1

NeedsSplit(L, C, q) == q = 0 \/ (q = 1 /\ q % C = 0)

SplitSize(L) == Max(L \div 2 + SplitSlack, MinPartSize)

\* ChunkSize without the adjustment
ChunkSizeNoSplit(L, R) == R

ChunkSize(L, R) == IF NeedsSplit(L, R, L \div R) THEN SplitSize(L) ELSE R

\* NotEnoughData never reporting
NotEnoughDataNever(q) == q < 0

NotEnoughData(q) == q = 0

----------------------------------------------------------------------------
(* Requests built by the closures handed to the executor *)

\* ExecSites with the POST of the single-shot upload wrapped as well
ExecSitesWithPost == {"download_file", "b2_get_upload_url", "b2_upload_file",
                      "b2_start_large_file", "b2_get_upload_part_url", "upload_part",
                      "b2_finish_large_file"}

ExecSites == {"download_file", "b2_get_upload_url", "b2_start_large_file", "b2_get_upload_part_url",
              "upload_part", "b2_finish_large_file"}

Request(site) ==
    CASE site = "download_file" ->
            [api |-> site, url |-> url, authorization |-> cfg.auth_token,
             payload |-> <<>>]
      [] site = "b2_list_buckets" ->
            [api |-> site, url |-> ApiUrl(cfg, site), authorization |-> cfg.auth_token,
             payload |-> [accountId |-> cfg.account_id]]
      [] site = "b2_get_upload_url" ->
            [api |-> site, url |-> ApiUrl(cfg, site), authorization |-> cfg.auth_token,
             payload |-> [bucketId |-> bucket_id]]
      [] site = "b2_upload_file" ->
            [api |-> site, url |-> upload_url, authorization |-> auth,
             payload |-> [file_name |-> "dest",
                          content_length |-> len,
                          sha1 |-> Hex(Sha1(FileBytes(0, len))),
                          body |-> FileBytes(0, len)]]
      [] site = "b2_start_large_file" ->
            [api |-> site, url |-> ApiUrl(cfg, site), authorization |-> cfg.auth_token,
             payload |-> [bucketId |-> bucket_id, fileName |-> "dest"]]
      [] site = "b2_get_upload_part_url" ->
            [api |-> site, url |-> ApiUrl(cfg, site), authorization |-> cfg.auth_token,
             payload |-> [fileId |-> file_id]]
      [] site = "upload_part" ->
            [api |-> site, url |-> upload_url, authorization |-> auth,
             payload |-> [part_number |-> PartNumber(n),
                          content_length |-> num_bytes,
                          sha1 |-> Last(shas),
                          body |-> PartBody(buf, num_bytes)]]
      [] site = "b2_finish_large_file" ->
            [api |-> site, url |-> ApiUrl(cfg, site), authorization |-> cfg.auth_token,
             payload |-> [fileId |-> file_id, partSha1Array |-> shas]]

NoRequest == [api |-> "", url |-> <<>>, authorization |-> <<>>, payload |-> <<>>]

\* a request whose URL has no base cannot be built: send() fails before any
\* exchange with the server
ValidUrl(u) == u[1] # <<>>

\* the upload URL and its authorisation token, as leased by the server
LeasedUrl  == <<<<"https://pod", 1>>, "/b2api/v3/", "upload">>
LeasedAuth == <<"uploadAuth", 1>>

PartHeaders(rq) ==
    [part_number |-> rq.payload.part_number,
     content_length |-> rq.payload.content_length,
     sha1 |-> rq.payload.sha1]

\* Returned letting the caller go on after a transport error
ReturnedOrTransport(r) == r.kind = "Ok" \/ r.error = "Transport"

\* Returned letting the caller go on after an Err as well
ReturnedAny(r) == r.kind # "Pending"

\* the `?` operator: the caller goes on only with an Ok
Returned(r) == r.kind = "Ok"

Running == -1

\* the commands of main that are modelled
Commands == {"upload", "download"}

\* main, Command::Download: format!("{}/file/{}/{}", &cfg.download_url, bucket, file)
DownloadUrl(c) == <<c.download_url, "/file/", "bucket/file">>

----------------------------------------------------------------------------
Init ==
    /\ command \in Commands
    /\ url = <<>>
    /\ len \in IF command = "upload" THEN Lens \cup BigLens ELSE {0}
    /\ cfg \in StoredConfigs(len)
    /\ store = cfg
    /\ parts \in IF command = "upload" THEN BOOLEAN ELSE {FALSE}
    /\ path_kind \in {"file"} \cup (IF command = "upload" /\ len = 0
                                     THEN {"special", "missing"} ELSE {})
    /\ pc = "main"
    /\ exit_code = Running
    /\ reported = FALSE
    /\ bucket_id = ""
    /\ calls = <<>>
    /\ ok_calls = 0
    /\ last_auth = NoAuthResponse
    /\ result = Ok(0)
    /\ loops = InitialLoops
    /\ resps = <<>>
    /\ reauths = 0
    /\ invocations = 0
    /\ last_req = NoRequest
    /\ file_id = ""
    /\ upload_url = <<>>
    /\ auth = <<>>
    /\ plan = [R |-> 0, naive |-> 0, split |-> FALSE]
    /\ chunk_size = 0
    /\ chunks = 0
    /\ n = 0
    /\ num_bytes = 0
    /\ buf = <<>>
    /\ shas = <<>>
    /\ total = 0
    /\ submitted = <<>>
    /\ server_parts = <<>>

uploadVars == <<file_id, upload_url, auth, plan, chunk_size, chunks, n, num_bytes,
                buf, shas, total>>

cmdVars == <<command, url>>

mainVars == <<store, path_kind, parts, len, exit_code, reported, bucket_id>>

\* a new call of send_request_res
NewCall ==
    /\ result' = Pending
    /\ loops' = InitialLoops
    /\ resps' = <<>>
    /\ reauths' = 0
    /\ invocations' = 0

\* AfterReauth dropping the token when the endpoint refuses
AfterReauthClearing(c, a) ==
    IF AuthOk(a) THEN Reauth(c, a.json) ELSE [c EXCEPT !.auth_token = <<>>]

\* cfg after cfg.reauth() met the outcome a of the authorisation endpoint
AfterReauth(c, a) == IF AuthOk(a) THEN Reauth(c, a.json) ELSE c

\* One iteration of the loop of send_request_res: req is invoked, the server
\* answers `out`; when the answer calls for it, cfg.reauth() runs and the
\* authorisation endpoint answers with one of AuthOutcomes.
\* cfg.key and cfg.key_id are non-empty whenever the executor runs (main ran
\* confirm_auth before the command's first request), so the confirm_auth calls of
\* reauth and api_url return at once.  Response bodies are taken to parse.
SendRequestRes ==
    /\ pc \in ExecSites
    /\ result.kind = "Pending"
    /\ exit_code = Running
    /\ \E out \in SendOutcomes :
        LET rq == Request(pc)
            sent == ValidUrl(rq.url) IN
        /\ ~sent => ~out.ok
        /\ last_req' = IF sent THEN rq ELSE last_req
        /\ calls' = IF sent /\ invocations = 0 THEN Append(calls, pc) ELSE calls
        /\ invocations' = invocations + 1
        /\ submitted' = IF pc = "upload_part" /\ invocations = 0
                        THEN Append(submitted, PartHeaders(rq)) ELSE submitted
        /\ server_parts' = IF pc = "upload_part" /\ out.ok /\ out.status = 200
                           THEN Append(server_parts, PartHeaders(rq)) ELSE server_parts
        /\ IF ~out.ok
           THEN /\ result' = Err("Transport", "", "", rq.url)
                /\ UNCHANGED <<cfg, loops, resps, reauths, ok_calls, last_auth>>
           ELSE /\ resps' = Append(resps, out)
                /\ LET act == Classify(loops, out) IN
                   CASE act = "exhausted" ->
                          /\ result' = Err("AuthExhausted", "", "", <<>>)
                          /\ UNCHANGED <<cfg, loops, reauths, ok_calls, last_auth>>
                     [] act = "return" ->
                          /\ result' = Ok(Len(resps'))
                          /\ ok_calls' = ok_calls + 1
                          /\ UNCHANGED <<cfg, loops, reauths, last_auth>>
                     [] act = "api_error" ->
                          /\ result' = Err("ApiError", out.code, out.message, rq.url)
                          /\ UNCHANGED <<cfg, loops, reauths, ok_calls, last_auth>>
                     [] act = "reauth" ->
                          \E a \in AuthOutcomesFor(len) :
                             /\ cfg' = AfterReauth(cfg, a)
                             /\ ok_calls' = ok_calls
                             /\ IF AuthOk(a)
                                THEN /\ last_auth' = a.json
                                     /\ reauths' = reauths + 1
                                     /\ loops' = loops - 1
                                     /\ result' = result
                                ELSE /\ result' = Err(IF a.ok THEN "AuthError" ELSE "Transport",
                                                      a.code, "", AUTHORISE_URL)
                                     /\ UNCHANGED <<loops, reauths, last_auth>>
    /\ UNCHANGED <<mainVars, pc, uploadVars>>
    /\ UNCHANGED cmdVars

\* b2_start_large_file returned: file_id is taken from the response
StartedLargeFile ==
    /\ pc = "b2_start_large_file"
    /\ Returned(result)
    /\ file_id' = "fileId"
    /\ pc' = "b2_get_upload_part_url"
    /\ NewCall
    /\ UNCHANGED <<cfg, mainVars, calls, ok_calls, last_auth, last_req, upload_url, auth,
                   plan, chunk_size, chunks, n, num_bytes, buf, shas, total, submitted,
                   server_parts>>
    /\ UNCHANGED cmdVars

\* b2_get_upload_part_url returned: the file is opened and the chunk plan derived
PlanChunks ==
    /\ pc = "b2_get_upload_part_url"
    /\ Returned(result)
    /\ \E opened \in BOOLEAN :
        LET R == cfg.recommended_part_size IN
        IF ~opened
        THEN /\ result' = Err("Io", "", "", <<>>)
             /\ pc' = "open"
             /\ UNCHANGED <<plan, chunk_size, chunks, upload_url, auth, buf, shas, total, n>>
        ELSE IF R = 0
        THEN /\ result' = Err("Panic", "", "", <<>>)
             /\ pc' = "plan"
             /\ UNCHANGED <<plan, chunk_size, chunks, upload_url, auth, buf, shas, total, n>>
        ELSE LET C == ChunkSize(len, R)
                 q == len \div C IN
             /\ plan' = [R |-> R, naive |-> len \div R, split |-> NeedsSplit(len, R, len \div R)]
             /\ chunk_size' = C
             /\ chunks' = q
             /\ IF NotEnoughData(q)
                THEN /\ result' = Err("InsufficientData", "", "", <<>>)
                     /\ pc' = "plan"
                     /\ UNCHANGED <<upload_url, auth, buf, shas, total, n>>
                ELSE /\ upload_url' = LeasedUrl
                     /\ auth' = LeasedAuth
                     /\ buf' = ZeroBytes(C)
                     /\ shas' = <<>>
                     /\ total' = 0
                     /\ n' = 0
                     /\ pc' = "read_part"
                     /\ result' = result
    /\ UNCHANGED <<cfg, mainVars, calls, ok_calls, last_auth, loops, resps, reauths,
                   invocations, last_req, file_id, num_bytes, submitted, server_parts>>
    /\ UNCHANGED cmdVars

\* how many bytes read_at may return when avail bytes lie between the offset
\* and the end of the file
ReadSizes(avail) == {avail} \cup (IF avail >= 2 THEN {avail \div 2} ELSE {})

\* ReadOffset taking the part size from the Config
ReadOffsetByPartSize(cs, i) == cfg.recommended_part_size * i

\* the offset of read_at for chunk i: (chunk_size * n) as u64
ReadOffset(cs, i) == cs * i

\* top of the loop body: read the chunk, hash the buffer, push the digest
ReadPart ==
    /\ pc = "read_part"
    /\ \E readOk \in BOOLEAN :
        IF ~readOk
        THEN /\ result' = Err("Io", "", "", <<>>)
             /\ UNCHANGED <<pc, num_bytes, buf, shas, loops, resps, reauths, invocations>>
        ELSE \E k \in ReadSizes(Min(chunk_size, len - ReadOffset(chunk_size, n))) :
             /\ num_bytes' = k
             /\ buf' = ReadAt(buf, ReadOffset(chunk_size, n), k)
             /\ shas' = PushSha(shas, Hex(Sha1(Hashed(buf', k))))
             /\ pc' = "upload_part"
             /\ NewCall
    /\ Returned(result)
    /\ UNCHANGED <<cfg, mainVars, calls, ok_calls, last_auth, last_req, file_id, upload_url,
                   auth, plan, chunk_size, chunks, n, total, submitted, server_parts>>
    /\ UNCHANGED cmdVars

\* Advance adding the chunk size
AdvanceByChunk(t, k) == t + chunk_size

\* total += num_bytes
Advance(t, k) == t + k

\* the part request returned: advance the counter and the loop
UploadedPart ==
    /\ pc = "upload_part"
    /\ Returned(result)
    /\ total' = Advance(total, num_bytes)
    /\ n' = n + 1
    /\ IF n < chunks
       THEN /\ pc' = "read_part"
            /\ UNCHANGED <<result, loops, resps, reauths, invocations>>
       ELSE /\ pc' = "b2_finish_large_file"
            /\ NewCall
    /\ UNCHANGED <<cfg, mainVars, calls, ok_calls, last_auth, last_req, file_id, upload_url,
                   auth, plan, chunk_size, chunks, num_bytes, buf, shas, submitted,
                   server_parts>>
    /\ UNCHANGED cmdVars

\* b2_finish_large_file returned: upload_file_parts returns the file record
Finished ==
    /\ pc = "b2_finish_large_file"
    /\ Returned(result)
    /\ pc' = "done"
    /\ UNCHANGED <<cfg, mainVars, calls, ok_calls, last_auth, result, loops, resps, reauths,
                   invocations, last_req, uploadVars, submitted, server_parts>>
    /\ UNCHANGED cmdVars

execVars == <<result, loops, resps, reauths, invocations>>

\* where main goes on after cfg.confirm_auth()?
AfterConfirm(cmd) == IF cmd = "upload" THEN "upload_file" ELSE "download_url"

\* main, Command::Upload and Command::Download: cfg.confirm_auth()?, which asks for the credentials
\* and calls cfg.authorise when the key or the key id is empty
ConfirmAuth ==
    /\ pc = "main"
    /\ IF NeedsCredentials(cfg)
       THEN \E a \in AuthOutcomesFor(len) :
              IF AuthOk(a)
              THEN /\ cfg' = Authorise(cfg, "keyid", "key", a.json)
                   /\ last_auth' = a.json
                   /\ pc' = AfterConfirm(command)
                   /\ result' = result
              ELSE /\ result' = Err(IF a.ok THEN "AuthError" ELSE "Transport",
                                    a.code, "", AUTHORISE_URL)
                   /\ UNCHANGED <<cfg, last_auth, pc>>
       ELSE /\ pc' = AfterConfirm(command)
            /\ UNCHANGED <<cfg, last_auth, result>>
    /\ Returned(result)
    /\ UNCHANGED cmdVars
    /\ UNCHANGED <<mainVars, calls, ok_calls, loops, resps, reauths, invocations, last_req,
                   uploadVars, submitted, server_parts>>

\* upload_file: the is_file test
NotAFile(kind) == kind # "file"

\* upload_file up to the bucket lookup: cfg.get_bucket_id answers from the map
\* or goes to the server
UploadFile ==
    /\ pc = "upload_file"
    /\ reported' = NotAFile(path_kind)
    /\ IF HasBucket(cfg, "bucket")
       THEN /\ bucket_id' = BucketId(cfg, "bucket")
            /\ pc' = "metadata"
       ELSE /\ pc' = "b2_list_buckets"
            /\ UNCHANGED bucket_id
    /\ UNCHANGED <<cfg, store, path_kind, parts, len, exit_code, calls, ok_calls, last_auth,
                   execVars, last_req, uploadVars, submitted, server_parts>>
    /\ UNCHANGED cmdVars

\* what b2_list_buckets may list
Listings == {Buckets, {<<"other", "otherId">>}}

\* Config::get_buckets, called by get_bucket_id on a miss, and the rest of
\* get_bucket_id.  The response is parsed whatever its status; the body of an
\* error response has no "buckets".  An unknown bucket ends the process.
GetBuckets ==
    /\ pc = "b2_list_buckets"
    /\ Returned(result)
    /\ exit_code = Running
    /\ \E out \in SendOutcomes, listed \in Listings :
        LET rq == Request(pc)
            sent == ValidUrl(rq.url) IN
        /\ ~sent => ~out.ok
        /\ last_req' = IF sent THEN rq ELSE last_req
        /\ calls' = IF sent THEN Append(calls, pc) ELSE calls
        /\ invocations' = 1
        /\ reauths' = 0
        /\ resps' = IF out.ok THEN <<out>> ELSE <<>>
        /\ IF ~out.ok
           THEN /\ result' = Err("Transport", "", "", rq.url)
                /\ UNCHANGED <<cfg, ok_calls, bucket_id, pc, exit_code>>
           ELSE IF out.status # 200
           THEN /\ result' = Err("Parse", out.code, out.message, rq.url)
                /\ UNCHANGED <<cfg, ok_calls, bucket_id, pc, exit_code>>
           ELSE /\ cfg' = [cfg EXCEPT !.buckets = InsertBuckets(@, listed)]
                /\ ok_calls' = ok_calls + 1
                /\ result' = result
                /\ IF HasBucket(cfg', "bucket")
                   THEN /\ bucket_id' = BucketId(cfg', "bucket")
                        /\ pc' = "metadata"
                        /\ UNCHANGED exit_code
                   ELSE /\ exit_code' = 1
                        /\ UNCHANGED <<bucket_id, pc>>
    /\ UNCHANGED <<store, path_kind, parts, len, reported, last_auth, loops,
                   uploadVars, submitted, server_parts>>
    /\ UNCHANGED cmdVars

\* upload_file: which path the file takes
UsesParts(p, L) == p \/ L >= LargeFileThreshold

\* upload_file: fs::metadata(file)?.len() and the choice of the path
Route ==
    /\ pc = "metadata"
    /\ IF path_kind = "missing"
       THEN /\ result' = Err("Io", "", "", <<>>)
            /\ UNCHANGED <<pc, loops, resps, reauths, invocations>>
       ELSE /\ pc' = IF UsesParts(parts, len) THEN "b2_start_large_file"
                     ELSE "b2_get_upload_url"
            /\ NewCall
    /\ UNCHANGED <<cfg, mainVars, calls, ok_calls, last_auth, last_req, uploadVars,
                   submitted, server_parts>>
    /\ UNCHANGED cmdVars

\* upload_file_non_parts, b2_get_upload_url returned: the file is opened,
\* hashed and rewound
HashFile ==
    /\ pc = "b2_get_upload_url"
    /\ Returned(result)
    /\ upload_url' = LeasedUrl
    /\ auth' = LeasedAuth
    /\ \E fileOk \in BOOLEAN :
        IF fileOk
        THEN /\ pc' = "b2_upload_file"
             /\ NewCall
        ELSE /\ pc' = "hash"
             /\ result' = Err("Io", "", "", <<>>)
             /\ UNCHANGED <<loops, resps, reauths, invocations>>
    /\ UNCHANGED <<cfg, mainVars, calls, ok_calls, last_auth, last_req, file_id, plan,
                   chunk_size, chunks, n, num_bytes, buf, shas, total, submitted,
                   server_parts>>
    /\ UNCHANGED cmdVars

\* Result of `reqwest::Client::new().post(upload_url)...send()?.json()?`: the
\* body of a response that is not a success does not parse as a File
PostResult(out, rq) ==
    IF ~out.ok THEN Err("Transport", "", "", rq.url)
    ELSE IF out.status = 200 THEN Ok(1)
    ELSE Err("Parse", out.code, out.message, rq.url)

\* upload_file_non_parts: the POST of the file to the upload URL
PostFile ==
    /\ pc = "b2_upload_file"
    /\ result.kind = "Pending"
    /\ \E out \in SendOutcomes :
        LET rq == Request(pc) IN
        /\ last_req' = rq
        /\ calls' = Append(calls, pc)
        /\ invocations' = invocations + 1
        /\ resps' = IF out.ok THEN Append(resps, out) ELSE resps
        /\ result' = PostResult(out, rq)
        /\ ok_calls' = IF Returned(result') THEN ok_calls + 1 ELSE ok_calls
    /\ UNCHANGED <<cfg, mainVars, pc, last_auth, loops, reauths, uploadVars, submitted,
                   server_parts>>
    /\ UNCHANGED cmdVars

\* upload_file_non_parts returns the file record
Posted ==
    /\ pc = "b2_upload_file"
    /\ Returned(result)
    /\ pc' = "done"
    /\ UNCHANGED <<cfg, mainVars, calls, ok_calls, last_auth, execVars, last_req,
                   uploadVars, submitted, server_parts>>
    /\ UNCHANGED cmdVars

\* main, Command::Download: `url` is built, then the executor is called
BuildUrl ==
    /\ pc = "download_url"
    /\ url' = DownloadUrl(cfg)
    /\ pc' = "download_file"
    /\ NewCall
    /\ UNCHANGED <<command, cfg, mainVars, calls, ok_calls, last_auth, last_req, uploadVars,
                   submitted, server_parts>>

\* main, Command::Download: the response is copied to the output file
Downloaded ==
    /\ pc = "download_file"
    /\ Returned(result)
    /\ \E written \in BOOLEAN :
        IF written
        THEN /\ pc' = "done"
             /\ UNCHANGED result
        ELSE /\ pc' = "output"
             /\ result' = Err("Io", "", "", <<>>)
    /\ UNCHANGED <<cmdVars, cfg, mainVars, calls, ok_calls, last_auth, loops, resps, reauths,
                   invocations, last_req, uploadVars, submitted, server_parts>>

\* the command returned Ok to main: cfg.save()?
Save ==
    /\ pc = "done"
    /\ Returned(result)
    /\ pc' = "save"
    /\ \E written \in BOOLEAN :
        IF written
        THEN /\ store' = cfg
             /\ exit_code' = 0
             /\ UNCHANGED result
        ELSE /\ result' = Err("Save", "", "", <<>>)
             /\ UNCHANGED <<store, exit_code>>
    /\ UNCHANGED <<cfg, path_kind, parts, len, reported, bucket_id, calls, ok_calls,
                   last_auth, loops, resps, reauths, invocations, last_req, uploadVars,
                   submitted, server_parts>>
    /\ UNCHANGED cmdVars

\* The process is over: main returned (an Err that travelled up through the
\* `?`s, or Ok after cfg.save) or process::exit was called
Exited == result.kind = "Err" \/ exit_code # Running

Next ==
    \/ ConfirmAuth
    \/ BuildUrl
    \/ Downloaded
    \/ UploadFile
    \/ GetBuckets
    \/ Route
    \/ SendRequestRes
    \/ HashFile
    \/ PostFile
    \/ Posted
    \/ StartedLargeFile
    \/ PlanChunks
    \/ ReadPart
    \/ UploadedPart
    \/ Finished
    \/ Save

Spec == Init /\ [][Next]_vars

\* file lengths of the runs examined for termination: the empty file and a
\* file of two chunks and a remainder
LiveLens == {0, 2 * MinPartSize + 1}

LiveInit == Init /\ len \in LiveLens

\* the process is sequential and every call it makes returns: it keeps taking
\* steps as long as one is possible
LiveSpec == LiveInit /\ [][Next]_vars /\ WF_vars(Next)

----------------------------------------------------------------------------
(* Properties of the executor, Config::send_request_res *)

CallEnded == pc \in ExecSites /\ result.kind # "Pending"

IsExpired(r) == r.status # 200 /\ r.code = "expired_auth_token"

\* every response of the call before the i-th asked for a reauthorisation
ExpiredBefore(i) == \A j \in 1..(i - 1) : IsExpired(resps[j])

\* the call received a success response preceded only by expired-token responses
SuccessAfterExpirations ==
    /\ CallEnded
    /\ Len(resps) > 0
    /\ Last(resps).status = 200
    /\ ExpiredBefore(Len(resps))

C2_RetryCount ==
    /\ (SuccessAfterExpirations /\ Len(resps) - 1 \in 0..4)
          => (reauths = Len(resps) - 1 /\ result = Ok(Len(resps)))
    /\ (CallEnded /\ Len(resps) >= 5 /\ ExpiredBefore(6))
          => /\ result.kind = "Err"
             /\ result.error \in {"AuthExhausted", "AuthError", "Transport"}
             /\ Len(resps) = 6 => (result.error = "AuthExhausted" /\ reauths = 5)

C2_Witness ==
    /\ SuccessAfterExpirations /\ reauths = 2 /\ result = Ok(3)
    /\ pc = "upload_part" /\ n = 1

\* C3 (as claimed): a call performs at most 5 reauthorisations and fails with
\* AuthExhausted only when a sixth one would be needed, that is only when the
\* response in hand is another expired_auth_token.
C3_ExhaustedOnlyWhenSixthNeeded ==
    /\ reauths <= 5
    /\ (CallEnded /\ result.error = "AuthExhausted")
          => (reauths = 5 /\ IsExpired(Last(resps)))

\* C4 (as claimed): a non-success response with a code other than
\* expired_auth_token ends the call with an ApiError carrying that response's
\* code and message and the request's URL, whatever preceded it.
C4_OtherErrorIsApiError ==
    (CallEnded /\ Len(resps) > 0 /\ Last(resps).status # 200 /\ ~IsExpired(Last(resps))
        /\ result.error # "Transport")
      => result = Err("ApiError", Last(resps).code, Last(resps).message, last_req.url)

----------------------------------------------------------------------------
(* Properties of the chunked upload, upload_file_parts *)

FinalizeSent == last_req.api = "b2_finish_large_file"

\* C5: the part numbers of successive chunks are 1, 2, 3, ...; the
\* partSha1Array of the finalize request lists, in order, the hashes the
\* server accepted with parts 1, 2, ..., one per accepted part.
C5_PartOrder ==
    /\ \A i \in 1..Len(submitted) : submitted[i].part_number = i
    /\ FinalizeSent =>
          LET arr == last_req.payload.partSha1Array IN
          /\ Len(arr) = Len(server_parts)
          /\ \A i \in 1..Len(arr) :
                /\ server_parts[i].part_number = i
                /\ server_parts[i].sha1 = arr[i]

C5_Witness ==
    /\ FinalizeSent
    /\ Len(last_req.payload.partSha1Array) >= 3
    /\ Len(submitted) >= 3
    /\ last_req.payload.partSha1Array[1] # last_req.payload.partSha1Array[3]

PartSent == pc = "upload_part" /\ invocations > 0

FullRead == num_bytes = Min(chunk_size, len - chunk_size * n)

\* C6 (as claimed): the hash sent with part n+1 is the digest of exactly the
\* num_bytes bytes of the file at offset chunk_size * n, and the declared
\* length is the length of the body.  Stated for uploads in which every read
\* so far returned all the bytes available.
C6_HashOfBytesRead ==
    (PartSent /\ FullRead /\ total = chunk_size * n) =>
        /\ last_req.payload.sha1 = Hex(Sha1(FileBytes(chunk_size * n, num_bytes)))
        /\ last_req.payload.content_length = ByteLen(last_req.payload.body)

PlanDerived == plan.R # 0

\* C7 (as claimed): for L >= 2 * 5,000,000 and every recommended part size the
\* plan has chunk_size >= 5,000,000 and chunks >= 1.
C7_PlanBoundsAnyR ==
    (PlanDerived /\ len >= 2 * MinPartSize) => (chunk_size >= MinPartSize /\ chunks >= 1)

\* C7 (amended): for L >= 2 * 5,000,000 and every recommended part size
\* R >= 5,000,000 the plan has chunk_size >= 5,000,000 and chunks >= 1.
C7_PlanBounds ==
    (PlanDerived /\ len >= 2 * MinPartSize /\ plan.R >= MinPartSize)
        => (chunk_size >= MinPartSize /\ chunks >= 1)

C7_Witness ==
    /\ PlanDerived /\ len >= 2 * MinPartSize /\ plan.R > len
    /\ plan.split /\ chunks = 1 /\ chunk_size = len \div 2 + SplitSlack

ExamplePlan == PlanDerived /\ len = 10000000 /\ plan.R = 6000000

\* C9 (as claimed): L = 10,000,000 and R = 6,000,000 give a first quotient of
\* 1, take the adjustment branch and end with chunk_size = 5,000,100, chunks = 1.
C9_ExampleSplits ==
    ExamplePlan => (plan.naive = 1 /\ plan.split /\ chunk_size = 5000100 /\ chunks = 1)

\* C9 (amended): L = 10,000,000 and R = 6,000,000 give a first quotient of 1,
\* do not take the adjustment branch (L is not a multiple of R) and end with
\* chunk_size = 6,000,000, chunks = 1.
C9_ExampleKeepsR ==
    ExamplePlan => (plan.naive = 1 /\ ~plan.split /\ chunk_size = 6000000 /\ chunks = 1)

C9_Witness == ExamplePlan /\ pc = "upload_part" /\ n = 1 /\ PartSent

\* C10: the upload fails with InsufficientData exactly when the chunk count
\* recomputed after the adjustment is 0, and then no part was submitted;
\* whenever a part was submitted, chunks = floor(L / chunk_size) >= 1.
C10_InsufficientData ==
    /\ result.error = "InsufficientData"
          => (chunks = 0 /\ submitted = <<>> /\ server_parts = <<>> /\ pc = "plan")
    /\ (PlanDerived /\ chunks = 0) => result.error = "InsufficientData"
    /\ submitted # <<>> => (PlanDerived /\ chunks = len \div chunk_size /\ chunks >= 1)

C10_Witness ==
    result.error = "InsufficientData" /\ plan.split /\ len > 0 /\ last_req.api = "b2_get_upload_part_url"

----------------------------------------------------------------------------
(* Properties of the Upload command *)

IsPrefix(s, t) == Len(s) <= Len(t) /\ \A i \in 1..Len(s) : s[i] = t[i]

\* the calls made by upload_file_parts / upload_file_non_parts: those after
\* the bucket lookup
UploadCalls ==
    IF calls # <<>> /\ calls[1] = "b2_list_buckets" THEN Tail(calls) ELSE calls

\* start, lease of the part URL, k parts, finish
ChunkedOrder(k) ==
    <<"b2_start_large_file", "b2_get_upload_part_url">>
        \o [i \in 1..k |-> "upload_part"] \o <<"b2_finish_large_file">>

FinishIssued == calls # <<>> /\ Last(calls) = "b2_finish_large_file"

\* C11: the calls of a chunked upload are issued in the order start, lease of
\* the part URL, one call per part, finish; the finish call is issued only
\* after the server accepted every part; every call but the last one issued
\* returned with success, so a failed call (a failed start included) is
\* followed by no other call.
C11_CallOrder ==
    /\ UsesParts(parts, len) => IsPrefix(UploadCalls, ChunkedOrder(chunks + 1))
    /\ FinishIssued =>
          /\ Len(server_parts) = chunks + 1
          /\ \A i \in 1..(chunks + 1) : server_parts[i].part_number = i
    /\ Len(calls) <= ok_calls + 1

C11_Witness ==
    /\ pc = "done" /\ FinishIssued /\ chunks >= 2
    /\ UploadCalls = ChunkedOrder(chunks + 1)
    /\ Len(calls) = ok_calls

\* the last iteration of the loop of a file whose length is a multiple of the
\* chunk size, every earlier read having returned all the bytes available
TrailingRead == PartSent /\ n = chunks /\ len % chunk_size = 0 /\ total = len

\* C12 (as claimed): a successful chunked upload submits exactly chunks + 1
\* parts; when the length is a multiple of chunk_size the trailing read
\* returns 0 bytes and is submitted as a part of empty content: byte count 0,
\* empty body, hash of the empty content.
C12_TrailingEmptyPart ==
    /\ (pc = "done" /\ UsesParts(parts, len))
          => (Len(submitted) = chunks + 1 /\ Len(server_parts) = chunks + 1)
    /\ TrailingRead =>
          /\ num_bytes = 0
          /\ last_req.payload.part_number = chunks + 1
          /\ last_req.payload.content_length = 0
          /\ last_req.payload.body = <<>>
          /\ last_req.payload.sha1 = Hex(Sha1(<<>>))

\* the call in hand was answered expired_auth_token and failed
FailedOnExpired ==
    result.kind = "Err" /\ resps # <<>> /\ IsExpired(Last(resps))

\* C13 (as claimed): every network call of an upload (bucket resolution,
\* get-upload-URL, start, lease, parts, finalize, single-shot POST) goes
\* through the executor, so that a call answered expired_auth_token fails
\* only when the reauthorisation fails, the retries are exhausted or the
\* request repeated after the reauthorisation fails.
C13_AllThroughExecutor ==
    /\ last_req # NoRequest => last_req.api \in ExecSites
    /\ FailedOnExpired =>
          \/ result.error = "AuthExhausted"
          \/ result.url = AUTHORISE_URL
          \/ reauths = Len(resps)

\* C14 (as claimed): the upload takes the chunked path exactly when the parts
\* flag is set or the file is larger than 1 GiB; a file of exactly 1 GiB
\* without the flag takes the single-shot path.
C14_RouteThreshold ==
    UploadCalls # <<>> =>
        (UploadCalls[1] = "b2_start_large_file" <=> (parts \/ len > LargeFileThreshold))

\* confirm_auth returned Ok to main
ConfirmedAuth == pc = "upload_file"

\* the session fields of c are those of the authorisation response j
SessionFrom(c, j) ==
    /\ c.auth_token = j.authorization_token
    /\ c.api_url = j.api_url
    /\ c.download_url = j.download_url
    /\ c.account_id = j.account_id
    /\ c.recommended_part_size = j.recommended_part_size

\* C15 (as claimed): whenever the stored token or the stored key id is empty,
\* confirm_auth obtains credentials and calls the authorisation endpoint, so
\* that after it returns the session fields are populated; when neither is
\* empty it performs no authorisation.
C15_AuthorisesWhenTokenEmpty ==
    ConfirmedAuth =>
        IF store.auth_token = <<>> \/ store.key_id = ""
        THEN /\ last_auth # NoAuthResponse
             /\ SessionFrom(cfg, last_auth)
             /\ ValidUrl(ApiUrl(cfg, "b2_list_buckets"))
        ELSE last_auth = NoAuthResponse /\ cfg = store

\* a step in which cfg.authorise (from confirm_auth) succeeded
AuthoriseStep == pc = "main" /\ pc' # "main" /\ NeedsCredentials(cfg)

\* a step in which cfg.reauth succeeded
ReauthStep == reauths' = reauths + 1

\* a step in which the authorisation endpoint answered with a non-success status
AuthErrorStep == result.kind # "Err" /\ result'.kind = "Err" /\ result'.error = "AuthError"

\* C16: a successful authorise or reauth overwrites token, API URL, download
\* URL, account id and recommended part size with the values of the response
\* (reauth leaves key, key id and bucket map alone); one answered with a
\* non-success status fails with AuthError and leaves every field of the
\* Config unchanged, and inside the executor that failure ends the call: no
\* request is sent after it.
C16_AuthOutcome ==
    [][/\ (AuthoriseStep \/ ReauthStep) =>
              /\ SessionFrom(cfg', last_auth')
              /\ cfg'.buckets = cfg.buckets
              /\ ReauthStep => (cfg'.key = cfg.key /\ cfg'.key_id = cfg.key_id)
       /\ AuthErrorStep =>
              /\ cfg' = cfg
              /\ result'.url = AUTHORISE_URL
              /\ pc' = pc
       /\ result.error = "AuthError" => UNCHANGED <<cfg, invocations, last_req, calls>>
      ]_vars

C16_Witness ==
    /\ pc = "upload_part" /\ result.error = "AuthError" /\ reauths = 1
    /\ Len(resps) = 2 /\ SessionFrom(cfg, last_auth) /\ cfg.auth_token # store.auth_token

\* a step of the executor in which cfg.reauth failed
ReauthFailedStep ==
    result.kind = "Pending" /\ result'.kind = "Err" /\ result'.url = AUTHORISE_URL

\* C17: reauth is invoked only by the executor and only on token expiry: every
\* reauthorisation, successful or not, happens in the step of an executor call
\* that received a response with code expired_auth_token; the token changes
\* in no other step but the authorise of confirm_auth.
C17_ReauthOnlyOnExpiry ==
    [][/\ (ReauthStep \/ ReauthFailedStep) =>
              /\ pc \in ExecSites
              /\ Len(resps') = Len(resps) + 1
              /\ IsExpired(Last(resps'))
       /\ cfg'.auth_token # cfg.auth_token => (ReauthStep \/ AuthoriseStep)
      ]_vars

C17_Witness ==
    /\ pc = "b2_finish_large_file" /\ result.kind = "Pending"
    /\ reauths = 1 /\ Len(resps) = 1 /\ IsExpired(resps[1]) /\ cfg.auth_token = last_auth.authorization_token

PostsOfFile == {i \in DOMAIN calls : calls[i] = "b2_upload_file"}

\* C18: the POST of the single-shot upload is sent once and outside the
\* executor: an answer to it that is not a success, expired_auth_token
\* included, fails the upload with no reauthorisation and no second POST; the
\* b2_get_upload_url request before it is retried by the executor.
C18_SingleShotPost ==
    /\ Cardinality(PostsOfFile) <= 1
    /\ pc = "b2_upload_file" =>
          /\ invocations <= 1
          /\ reauths = 0
          /\ (resps # <<>> /\ Last(resps).status # 200) => result.kind = "Err"
    /\ (pc = "b2_get_upload_url" /\ Returned(result)) =>
          (reauths = Len(resps) - 1 /\ invocations = Len(resps))

C18_Witness ==
    /\ pc = "b2_upload_file" /\ result.kind = "Err" /\ invocations = 1
    /\ Len(resps) = 1 /\ IsExpired(resps[1]) /\ Cardinality(PostsOfFile) = 1

\* C19 (as claimed): when the path is not a regular file the upload fails with
\* NotAFile before any network call is made, and the command aborts.
C19_NotAFileBeforeNetwork ==
    NotAFile(path_kind) =>
        /\ last_req = NoRequest
        /\ calls = <<>>
        /\ reported => result.error = "NotAFile"

\* C20 (as claimed): on every exit of the process, exits caused by a failed
\* command after a successful reauthorisation included, the Config in memory
\* has been saved to the configuration store.
C20_SavedOnExit ==
    (Exited /\ result.error # "Save") => store = cfg

----------------------------------------------------------------------------
(* Properties of the requests and of the chunk plan *)

\* a step in which the executor invokes `req` again after a reauthorisation
RetryStep ==
    /\ pc \in ExecSites /\ result.kind = "Pending" /\ reauths >= 1
    /\ invocations' = invocations + 1

\* the request rq carries the token and a base URL of the Config c
BuiltFrom(rq, c) ==
    /\ rq.authorization = c.auth_token
    /\ rq.url[1] \in {c.api_url, c.download_url}

\* C21 (as claimed): at every call site, every attempt the executor makes
\* after a reauthorisation is built from the values that reauthorisation wrote
\* to the Config: its token and its API or download URL.
C21_RetryUsesCurrentSession ==
    [][RetryStep => BuiltFrom(last_req', cfg)]_vars

\* the loop of upload_file_parts and what follows it
InPartLoop == pc \in {"read_part", "upload_part"}

\* C22: chunk_size and chunks are fixed before the first part is read and do
\* not change afterwards, whatever a reauthorisation during the loop writes to
\* the Config's recommended part size; every part is read at offset
\* chunk_size * n with that chunk_size.
C22_PlanFixed ==
    [][/\ PlanDerived => UNCHANGED <<plan, chunk_size, chunks>>
       /\ InPartLoop' =>
              /\ PlanDerived'
              /\ chunk_size' = ChunkSize(len, plan'.R)
              /\ chunks' = len \div chunk_size'
       /\ (pc = "read_part" /\ pc' = "upload_part" /\ num_bytes' > 0) =>
              Head(buf') = [src |-> "file", off |-> chunk_size * n, len |-> num_bytes']
      ]_vars

C22_Witness ==
    /\ pc = "upload_part" /\ n >= 1 /\ num_bytes > 0 /\ invocations = 0
    /\ cfg.recommended_part_size # plan.R /\ chunk_size = plan.R
    /\ Head(buf).off = plan.R * n

----------------------------------------------------------------------------
(* Properties of the bucket map *)

Names(m) == {b[1] : b \in m}

ListCalls == {i \in DOMAIN calls : calls[i] = "b2_list_buckets"}

\* a step in which get_buckets completed
ListedStep == pc = "b2_list_buckets" /\ ok_calls' = ok_calls + 1

\* C23: get_bucket_id answers from the bucket map without a network call when
\* the name is in it; on a miss it calls b2_list_buckets once, merges the
\* listing into the map and looks the name up again, giving None when the name
\* is still absent; entries are inserted or overwritten, never removed.
C23_BucketCache ==
    [][/\ (pc = "upload_file" /\ HasBucket(cfg, "bucket")) =>
              /\ bucket_id' = BucketId(cfg, "bucket")
              /\ UNCHANGED <<calls, last_req, cfg>>
       /\ (pc = "upload_file" /\ ~HasBucket(cfg, "bucket")) =>
              (pc' = "b2_list_buckets" /\ UNCHANGED <<calls, last_req, cfg>>)
       /\ ListedStep =>
              /\ last_req'.url = ApiUrl(cfg, "b2_list_buckets")
              /\ Names(cfg.buckets) \subseteq Names(cfg'.buckets)
              /\ \A b \in cfg.buckets :
                    b \in cfg'.buckets \/ (\E o \in cfg'.buckets \ cfg.buckets : o[1] = b[1])
              /\ IF HasBucket(cfg', "bucket")
                 THEN bucket_id' = BucketId(cfg', "bucket") /\ exit_code' = Running
                 ELSE bucket_id' = "" /\ exit_code' = 1
       /\ Names(cfg.buckets) \subseteq Names(cfg'.buckets)
       /\ Cardinality(ListCalls') <= 1
      ]_vars

C23_Witness ==
    /\ pc = "metadata" /\ Cardinality(ListCalls) = 1
    /\ cfg.buckets = Buckets \cup StaleBuckets
    /\ store.buckets = StaleBuckets /\ bucket_id = "bucketId"

----------------------------------------------------------------------------
(* Properties of the part loop *)

\* a step in which the executor repeats the part request
PartRetryStep ==
    /\ pc = "upload_part" /\ result.kind = "Pending" /\ invocations >= 1
    /\ invocations' = invocations + 1

\* C24: every attempt the executor makes for a chunk carries the same part
\* number, hash, byte count, body, upload URL and upload authorisation; a retry
\* neither appends to the hash list nor advances the byte counter or the chunk
\* index; the hash list has one entry per chunk, however many attempts.
C24_IdempotentPartRetry ==
    [][/\ PartRetryStep => last_req' = last_req
       /\ (pc = "upload_part" /\ pc' = "upload_part") =>
              UNCHANGED <<shas, total, n, num_bytes, buf, upload_url, auth>>
       /\ InPartLoop' => Len(shas') = IF pc' = "upload_part" THEN n' + 1 ELSE n'
      ]_vars

C24_Witness ==
    /\ pc = "upload_part" /\ Returned(result) /\ invocations = 3 /\ reauths = 2
    /\ n >= 1 /\ Len(shas) = n + 1 /\ last_req.payload.part_number = n + 1

\* every read so far returned all the bytes available, up to chunk_size
FullReads ==
    \A i \in 1..Len(submitted) :
        submitted[i].content_length = Min(chunk_size, len - chunk_size * (i - 1))

RECURSIVE SumLengths(_)
SumLengths(ps) ==
    IF ps = <<>> THEN 0 ELSE Head(ps).content_length + SumLengths(Tail(ps))

\* between two iterations of the loop, and after it
BetweenParts == pc \in {"read_part", "b2_finish_large_file"} \/ FinishIssued

\* C25: when every read returns all the bytes available, parts 1..chunks have
\* chunk_size bytes each and the last part has len - chunks * chunk_size
\* bytes, fewer than chunk_size, so that the parts cover [0, len) without gap
\* or overlap; the progress counter is the sum of the byte counts of the
\* accepted parts after every part, and is len when finish is issued.
C25_PartCoverage ==
    (PlanDerived /\ chunks >= 1 /\ FullReads) =>
        /\ \A i \in 1..Len(submitted) :
              submitted[i].content_length =
                  IF i <= chunks THEN chunk_size ELSE len - chunks * chunk_size
        /\ len - chunks * chunk_size \in 0..(chunk_size - 1)
        /\ Len(submitted) <= chunks + 1
        /\ BetweenParts =>
              /\ total = SumLengths(server_parts)
              /\ total = SumLengths(submitted)
              /\ Len(server_parts) = n
        /\ FinishIssued => (total = len /\ Len(server_parts) = chunks + 1)

C25_Witness ==
    /\ FinishIssued /\ FullReads /\ chunks >= 2 /\ total = len
    /\ len % chunk_size # 0 /\ SumLengths(server_parts) = len

----------------------------------------------------------------------------
(* Invocation count and termination *)

\* C26: in one executor call the operation is invoked at most 6 times, one
\* more time than there were (successful) reauthorisations; the sixth
\* invocation is sent and its response, whatever its status, is discarded: the
\* call fails with AuthExhausted.
C26_InvocationCount ==
    pc \in ExecSites =>
        /\ invocations <= InitialLoops + 1
        /\ result.kind = "Pending" => invocations = reauths
        /\ CallEnded => invocations = reauths + 1
        /\ (CallEnded /\ Len(resps) = InitialLoops + 1) =>
              /\ result = Err("AuthExhausted", "", "", <<>>)
              /\ invocations = InitialLoops + 1
              /\ last_req = Request(pc)

C26_Witness ==
    /\ CallEnded /\ Len(resps) = InitialLoops + 1 /\ invocations = InitialLoops + 1
    /\ Last(resps).code = "bad_request" /\ result.error = "AuthExhausted"
    /\ pc = "b2_get_upload_url"

\* C27: when every network call returns, every executor call ends with a
\* response or an error after at most 6 attempts, every chunked upload submits
\* at most chunks + 1 parts, and the run ends: no sequence of answers keeps
\* the executor or the part loop going for ever.
C27_Terminates ==
    /\ [](invocations <= InitialLoops + 1 /\ Len(submitted) <= chunks + 1)
    /\ (result.kind = "Pending") ~> (result.kind # "Pending")
    /\ <>Exited

C27_Witness ==
    /\ Exited /\ exit_code = 0 /\ FinishIssued /\ Len(submitted) = chunks + 1
    /\ chunks = 2 /\ len \in LiveLens

\* C28: an upload that fails with 'Not enough data to upload by parts' has
\* completed b2_start_large_file and b2_get_upload_part_url (the large-file
\* session exists on the server) and has submitted no part and no finish; the
\* chunk plan is derived only after both calls.
C28_CheckPlacement ==
    /\ result.error = "InsufficientData" =>
          /\ UploadCalls = <<"b2_start_large_file", "b2_get_upload_part_url">>
          /\ ok_calls = Len(calls)
          /\ file_id = "fileId"
          /\ submitted = <<>> /\ server_parts = <<>>
    /\ PlanDerived =>
          /\ Len(UploadCalls) >= 2
          /\ UploadCalls[1] = "b2_start_large_file"
          /\ UploadCalls[2] = "b2_get_upload_part_url"
          /\ ok_calls >= Len(calls) - Len(UploadCalls) + 2

C28_Witness ==
    /\ result.error = "InsufficientData" /\ len = 0 /\ file_id = "fileId"
    /\ calls = <<"b2_list_buckets", "b2_start_large_file", "b2_get_upload_part_url">>
    /\ ok_calls = 3

====
